---- MODULE Spec2Model ----
(***************************************************************************)
(* A model of md5dir (src/md5dir/md5dir.py): the HashList class (add,      *)
(* read_file, write_file, lines, compare, diff, __eq__, _justify) and the  *)
(* Directory class (md5, md5_list, _get_filepaths).                        *)
(*                                                                         *)
(* Python str values are sequences of character codes, so that str         *)
(* comparison, str.split, str.startswith and the text written to a file    *)
(* are computed and not assumed.  A text file is the sequence of its       *)
(* lines, each without its final "\n".                                    *)
(***************************************************************************)
EXTENDS Integers, Sequences, FiniteSets, Bags, TLC

VARIABLES
    hl,      \* hl[o]: the field self.hashlist of HashList object o
    dp,      \* dp[o]: the field self.dirpath of HashList object o
    fs,      \* the file at the path handed to read_file / write_file
    ret,     \* the last call: its name, operands, result or exception
    tree,    \* the directory snapshot the Directory object walks
    inc,     \* the include_hidden argument
    mode,    \* which method runs: "md5_list" or "md5"
    run,     \* number of the invocation in progress (1 or 2)
    pc,      \* position of the running method
    stack,   \* os.walk: directories still to be listed
    cur,     \* os.walk: the (d_path, dirnames, filenames) triple being used
    acc,     \* the local hashlist (md5_list) or the bytes fed to md5 (md5)
    res      \* res[r]: what invocation r returned or raised

hlvars  == <<hl, dp, fs, ret>>
dirvars == <<tree, inc, mode, run, pc, stack, cur, acc, res>>
vars    == <<hl, dp, fs, ret, tree, inc, mode, run, pc, stack, cur, acc, res>>

----------------------------------------------------------------------------
(* Bounds *)

\* longest hashlist built with add
MaxLen == 2

\* successive calls of md5_list or md5 on one snapshot
Runs == 2

----------------------------------------------------------------------------
(* Python values *)

\* Optional[str]: None, or a str
None   == [isNone |-> TRUE,  v |-> <<>>]
Str(s) == [isNone |-> FALSE, v |-> s]

\* "{}".format(x) of an Optional[str]
format(x) == IF x.isNone THEN <<78, 111, 110, 101>> ELSE x.v

Min(x, y) == IF x <= y THEN x ELSE y

\* s < t on Python str: lexicographic on the code points
StrLess(s, t) ==
    \E k \in 1..(Min(Len(s), Len(t)) + 1) :
        /\ \A i \in 1..(k - 1) : s[i] = t[i]
        /\ \/ k = Len(s) + 1 /\ k <= Len(t)
           \/ k <= Len(s) /\ k <= Len(t) /\ s[k] < t[k]

\* e < f on Python tuples (str, str)
TupleLess(e, f) == StrLess(e[1], f[1]) \/ (e[1] = f[1] /\ StrLess(e[2], f[2]))

RECURSIVE Insert(_, _)
Insert(e, s) ==
    IF s = <<>> THEN <<e>>
    ELSE IF TupleLess(s[1], e) THEN <<s[1]>> \o Insert(e, Tail(s))
    ELSE <<e>> \o s

\* list.sort() of a list of (str, str) tuples: the ascending arrangement
RECURSIVE sort(_)
sort(s) == IF s = <<>> THEN <<>> ELSE Insert(s[1], sort(Tail(s)))

\* str.startswith(c) for a one-character c
startswith(s, c) == Len(s) > 0 /\ s[1] = c

\* the characters str.split() takes for whitespace
IsSpace(c) == c \in {9, 10, 11, 12, 13, 28, 29, 30, 31, 32, 133, 160}

\* str.split(): the maximal runs of non-whitespace characters, in order
RECURSIVE splitFrom(_, _, _)
splitFrom(s, i, tok) ==
    IF i > Len(s) THEN (IF tok = <<>> THEN <<>> ELSE <<tok>>)
    ELSE IF IsSpace(s[i])
         THEN (IF tok = <<>> THEN <<>> ELSE <<tok>>) \o splitFrom(s, i + 1, <<>>)
         ELSE splitFrom(s, i + 1, Append(tok, s[i]))

split(s) == splitFrom(s, 1, <<>>)

\* " " * n
RECURSIVE Spaces(_)
Spaces(n) == IF n <= 0 THEN <<>> ELSE <<32>> \o Spaces(n - 1)

\* str(n) for an int n >= 0
RECURSIVE decimal(_)
decimal(n) == IF n < 10 THEN <<48 + n>> ELSE decimal(n \div 10) \o <<48 + (n % 10)>>

\* sep.join(items)
RECURSIVE join(_, _)
join(sep, items) ==
    IF items = <<>> THEN <<>>
    ELSE IF Len(items) = 1 THEN items[1]
    ELSE items[1] \o sep \o join(sep, Tail(items))

----------------------------------------------------------------------------
(* HashList: rendering *)

min_dist == 5

RECURSIVE longestOf(_, _)
longestOf(md5_list, longest) ==
    IF md5_list = <<>> THEN longest
    ELSE longestOf(Tail(md5_list),
                   IF Len(md5_list[1][1]) > longest THEN Len(md5_list[1][1]) ELSE longest)

\* HashList._justify: (filepath, spaces, md5) for every entry, in list order
justify(md5_list) ==
    LET longest == longestOf(md5_list, 0)
    IN  [i \in 1..Len(md5_list) |->
            <<md5_list[i][1],
              Spaces(longest - Len(md5_list[i][1])) \o Spaces(min_dist),
              md5_list[i][2]>>]

\* HashList.lines
lines(hashlist) ==
    LET justified == justify(hashlist)
    IN  [i \in 1..Len(justified) |->
            justified[i][1] \o justified[i][2] \o justified[i][3]]

----------------------------------------------------------------------------
(* difflib.unified_diff(a, b, fromfile, tofile, n=0), as diff() calls it *)

\* length of the common run of a from i and b from j (0-based, half-open)
RECURSIVE MatchLen(_, _, _, _, _, _)
MatchLen(a, b, i, j, ahi, bhi) ==
    IF i < ahi /\ j < bhi /\ a[i + 1] = b[j + 1]
    THEN 1 + MatchLen(a, b, i + 1, j + 1, ahi, bhi)
    ELSE 0

\* SequenceMatcher.find_longest_match: the longest block, of those the one
\* starting earliest in a, of those the one starting earliest in b
find_longest_match(a, b, alo, ahi, blo, bhi) ==
    LET sz(p) == MatchLen(a, b, p[1], p[2], ahi, bhi)
        pos   == {p \in (alo..(ahi - 1)) \X (blo..(bhi - 1)) : sz(p) > 0}
    IN  IF pos = {} THEN <<alo, blo, 0>>
        ELSE LET best == CHOOSE p \in pos : \A q \in pos :
                            \/ sz(q) < sz(p)
                            \/ /\ sz(q) = sz(p)
                               /\ \/ p[1] < q[1]
                                  \/ p[1] = q[1] /\ p[2] <= q[2]
             IN  <<best[1], best[2], sz(best)>>

RECURSIVE blocksIn(_, _, _, _, _, _)
blocksIn(a, b, alo, ahi, blo, bhi) ==
    LET m == find_longest_match(a, b, alo, ahi, blo, bhi)
        i == m[1]
        j == m[2]
        k == m[3]
    IN  IF k = 0 THEN <<>>
        ELSE (IF alo < i /\ blo < j THEN blocksIn(a, b, alo, i, blo, j) ELSE <<>>)
             \o <<m>>
             \o (IF i + k < ahi /\ j + k < bhi
                 THEN blocksIn(a, b, i + k, ahi, j + k, bhi) ELSE <<>>)

RECURSIVE collapse(_)
collapse(bs) ==
    IF Len(bs) < 2 THEN bs
    ELSE IF bs[1][1] + bs[1][3] = bs[2][1] /\ bs[1][2] + bs[1][3] = bs[2][2]
         THEN collapse(<< <<bs[1][1], bs[1][2], bs[1][3] + bs[2][3]>> >>
                       \o SubSeq(bs, 3, Len(bs)))
         ELSE <<bs[1]>> \o collapse(Tail(bs))

\* SequenceMatcher.get_matching_blocks
get_matching_blocks(a, b) ==
    collapse(blocksIn(a, b, 0, Len(a), 0, Len(b))) \o << <<Len(a), Len(b), 0>> >>

RECURSIVE opcodesFrom(_, _, _)
opcodesFrom(bs, i, j) ==
    IF bs = <<>> THEN <<>>
    ELSE LET ai   == bs[1][1]
             bj   == bs[1][2]
             size == bs[1][3]
             tag  == IF i < ai /\ j < bj THEN "replace"
                     ELSE IF i < ai THEN "delete"
                     ELSE IF j < bj THEN "insert"
                     ELSE ""
         IN  (IF tag # "" THEN << <<tag, i, ai, j, bj>> >> ELSE <<>>)
             \o (IF size > 0 THEN << <<"equal", ai, ai + size, bj, bj + size>> >>
                 ELSE <<>>)
             \o opcodesFrom(Tail(bs), ai + size, bj + size)

\* SequenceMatcher.get_opcodes
get_opcodes(a, b) == opcodesFrom(get_matching_blocks(a, b), 0, 0)

\* get_grouped_opcodes(0): with no context every changed range is a group
\* of its own, bordered by empty "equal" ranges
hunks(a, b) == SelectSeq(get_opcodes(a, b), LAMBDA c : c[1] # "equal")

\* difflib._format_range_unified
format_range_unified(start, stop) ==
    LET length == stop - start
    IN  IF length = 1 THEN decimal(start + 1)
        ELSE decimal(IF length = 0 THEN start ELSE start + 1)
             \o <<44>> \o decimal(length)

\* prefix + line for every line of xs[lo+1..hi]
marked(prefix, xs, lo, hi) == [k \in 1..(hi - lo) |-> <<prefix>> \o xs[lo + k]]

RECURSIVE hunkLines(_, _, _)
hunkLines(a, b, hs) ==
    IF hs = <<>> THEN <<>>
    ELSE LET h == hs[1]
         IN  << <<64, 64, 32, 45>> \o format_range_unified(h[2], h[3])
                \o <<32, 43>> \o format_range_unified(h[4], h[5])
                \o <<32, 64, 64>> \o <<10>> >>
             \o (IF h[1] \in {"replace", "delete"}
                 THEN marked(45, a, h[2], h[3]) ELSE <<>>)
             \o (IF h[1] \in {"replace", "insert"}
                 THEN marked(43, b, h[4], h[5]) ELSE <<>>)
             \o hunkLines(a, b, Tail(hs))

\* the lines unified_diff yields (lineterm "\n" on the control lines)
unified_diff(a, b, fromfile, tofile) ==
    LET hs == hunks(a, b)
    IN  IF hs = <<>> THEN <<>>
        ELSE << <<45, 45, 45, 32>> \o fromfile \o <<10>>,
                <<43, 43, 43, 32>> \o tofile \o <<10>> >>
             \o hunkLines(a, b, hs)

----------------------------------------------------------------------------
(* HashList: the methods *)

Objs == {"a", "b"}

\* a path that is no regular file, and a regular file with the given lines
NoFile      == [isfile |-> FALSE, lines |-> <<>>]
File(ls)    == [isfile |-> TRUE,  lines |-> ls]

\* read_file without its assert (python -O): the first two tokens are taken
read_file_no_assert(hashlist, f) ==
    IF ~f.isfile
    THEN [exc |-> "Exception: N'est pas un fichier", hashlist |-> hashlist]
    ELSE LET content == SelectSeq(f.lines, LAMBDA line : ~startswith(line, 35))
         IN  IF content = <<>>
             THEN [exc |-> "Exception: est vide", hashlist |-> hashlist]
             ELSE IF \E i \in 1..Len(content) : Len(split(content[i])) < 2
             THEN [exc |-> "IndexError", hashlist |-> hashlist]
             ELSE [exc |-> "",
                   hashlist |-> [i \in 1..Len(content) |->
                                   <<split(content[i])[1], split(content[i])[2]>>]]

\* read_file appending to self.hashlist line by line instead of to a local list
read_file_in_place(hashlist, f) ==
    IF ~f.isfile
    THEN [exc |-> "Exception: N'est pas un fichier", hashlist |-> hashlist]
    ELSE LET content == SelectSeq(f.lines, LAMBDA line : ~startswith(line, 35))
             bad     == {i \in 1..Len(content) : Len(split(content[i])) # 2}
             upto    == IF bad = {} THEN Len(content)
                        ELSE (CHOOSE i \in bad : \A j \in bad : i <= j) - 1
         IN  IF content = <<>>
             THEN [exc |-> "Exception: est vide", hashlist |-> hashlist]
             ELSE [exc |-> IF bad = {} THEN "" ELSE "AssertionError",
                   hashlist |-> [i \in 1..upto |->
                                   <<split(content[i])[1], split(content[i])[2]>>]]

\* HashList.read_file: the exception raised ("" when none) and the value of
\* self.hashlist when the call ends
read_file(hashlist, f) ==
    IF ~f.isfile
    THEN [exc |-> "Exception: N'est pas un fichier", hashlist |-> hashlist]
    ELSE LET content == SelectSeq(f.lines, LAMBDA line : ~startswith(line, 35))
         IN  IF content = <<>>
             THEN [exc |-> "Exception: est vide", hashlist |-> hashlist]
             ELSE IF \E i \in 1..Len(content) : Len(split(content[i])) # 2
             THEN [exc |-> "AssertionError", hashlist |-> hashlist]
             ELSE [exc |-> "",
                   hashlist |-> [i \in 1..Len(content) |->
                                   <<split(content[i])[1], split(content[i])[2]>>]]

\* HashList.read_file: the value of self.dirpath when the call ends
read_file_dirpath(dirpath) == dirpath

\* HashList.write_file: the file it leaves at destfile
write_file(hashlist, dirpath) ==
    File(<< <<35, 32, 83, 111, 109, 109, 101, 115, 32, 109, 100, 53, 32, 100, 101, 32>>
            \o format(dirpath) >>
         \o lines(hashlist))

\* __eq__ comparing the lists as they stand, without sorting
eq_unsorted(self_hashlist, other_hashlist) ==
    [self |-> self_hashlist, other |-> other_hashlist,
     val |-> self_hashlist = other_hashlist]

\* __eq__ sorting copies and leaving both lists as they were
eq_on_copies(self_hashlist, other_hashlist) ==
    [self |-> self_hashlist, other |-> other_hashlist,
     val |-> sort(self_hashlist) = sort(other_hashlist)]

\* HashList.__eq__: both lists as the call leaves them, and its result
eq(self_hashlist, other_hashlist) ==
    LET s == sort(self_hashlist)
        o == sort(other_hashlist)
    IN  [self |-> s, other |-> o, val |-> s = o]

\* HashList.diff: unified_diff raises TypeError unless both file names are str
diff(self_hashlist, self_dirpath, other_hashlist, other_dirpath) ==
    IF self_dirpath.isNone \/ other_dirpath.isNone
    THEN [exc |-> "TypeError", val |-> <<>>]
    ELSE [exc |-> "",
          val |-> join(<<10>>, unified_diff(lines(self_hashlist), lines(other_hashlist),
                                            self_dirpath.v, other_dirpath.v))]

\* "Les sommes md5 sont identiques.\n"
Identiques ==
    <<76, 101, 115, 32, 115, 111, 109, 109, 101, 115, 32, 109, 100, 53, 32, 115, 111,
      110, 116, 32, 105, 100, 101, 110, 116, 105, 113, 117, 101, 115, 46, 10>>

\* "Les sommes md5 sont différentes!\n\n"
Differentes ==
    <<76, 101, 115, 32, 115, 111, 109, 109, 101, 115, 32, 109, 100, 53, 32, 115, 111,
      110, 116, 32, 100, 105, 102, 102, 233, 114, 101, 110, 116, 101, 115, 33, 10, 10>>

\* HashList.compare: both lists as the call leaves them, the exception raised
\* ("" when none) and the text returned
compare(self_hashlist, self_dirpath, other_hashlist, other_dirpath) ==
    LET e == eq(self_hashlist, other_hashlist)
        d == diff(e.self, self_dirpath, e.other, other_dirpath)
    IN  IF e.val
        THEN [self |-> e.self, other |-> e.other, exc |-> "", val |-> Identiques]
        ELSE [self |-> e.self, other |-> e.other, exc |-> d.exc,
              val |-> IF d.exc = "" THEN Differentes \o d.val ELSE <<>>]

\* the record kept of a call: its operands, its outcome, and the two objects'
\* fields when it began
Call(op, self, other, exc, val) ==
    [op |-> op, self |-> self, other |-> other, exc |-> exc, val |-> val,
     pre |-> hl, dp0 |-> dp]

\* self.hashlist.append(doublet)
Add(o, doublet) ==
    /\ Len(hl[o]) < MaxLen
    /\ hl' = [hl EXCEPT ![o] = Append(hl[o], doublet)]
    /\ ret' = Call("add", o, o, "", doublet)
    /\ UNCHANGED <<dp, fs>>
    /\ UNCHANGED dirvars

ReadFile(o) ==
    LET r == read_file(hl[o], fs)
    IN  /\ hl' = [hl EXCEPT ![o] = r.hashlist]
        /\ dp' = [dp EXCEPT ![o] = read_file_dirpath(dp[o])]
        /\ ret' = Call("read_file", o, o, r.exc, <<>>)
        /\ UNCHANGED fs
        /\ UNCHANGED dirvars

WriteFile(o) ==
    /\ fs' = write_file(hl[o], dp[o])
    /\ ret' = Call("write_file", o, o, "", <<>>)
    /\ UNCHANGED <<hl, dp>>
    /\ UNCHANGED dirvars

Lines(o) ==
    /\ ret' = Call("lines", o, o, "", lines(hl[o]))
    /\ UNCHANGED <<hl, dp, fs>>
    /\ UNCHANGED dirvars

Eq(o, p) ==
    LET r == eq(hl[o], hl[p])
    IN  /\ hl' = [hl EXCEPT ![o] = r.self, ![p] = r.other]
        /\ ret' = Call("eq", o, p, "", r.val)
        /\ UNCHANGED <<dp, fs>>
        /\ UNCHANGED dirvars

Diff(o, p) ==
    LET r == diff(hl[o], dp[o], hl[p], dp[p])
    IN  /\ ret' = Call("diff", o, p, r.exc, r.val)
        /\ UNCHANGED <<hl, dp, fs>>
        /\ UNCHANGED dirvars

Compare(o, p) ==
    LET r == compare(hl[o], dp[o], hl[p], dp[p])
    IN  /\ hl' = [hl EXCEPT ![o] = r.self, ![p] = r.other]
        /\ ret' = Call("compare", o, p, r.exc, r.val)
        /\ UNCHANGED <<dp, fs>>
        /\ UNCHANGED dirvars

----------------------------------------------------------------------------
(* Inputs *)

\* the doublets handed to add where files are read and written:
\* ("a","0"), ("bb","1"), ("a b","0")
EntriesFile ==
    { <<<<97>>, <<48>>>>, <<<<98, 98>>, <<49>>>>, <<<<97, 32, 98>>, <<48>>>> }

\* the doublets handed to add where two lists are compared:
\* ("a","0"), ("a","1"), ("bb","0")
EntriesEq == { <<<<97>>, <<48>>>>, <<<<97>>, <<49>>>>, <<<<98, 98>>, <<48>>>> }

\* the files found at the path before any write_file: none; an empty one;
\* "# c"; "# c", "bb 1", "a   0"; "a 0 1"; "a 0", "a"
FileInputs ==
    { NoFile,
      File(<<>>),
      File(<< <<35, 32, 99>> >>),
      File(<< <<35, 32, 99>>, <<98, 98, 32, 49>>, <<97, 32, 32, 32, 48>> >>),
      File(<< <<97, 32, 48, 32, 49>> >>),
      File(<< <<97, 32, 48>>, <<97>> >>) }

\* the pairs (self, other) of the calls that take two lists
Pairs == { <<"a", "b">>, <<"b", "a">> }

\* no call made yet
NoCall == Call("init", "a", "a", "", <<>>)

DirIdle ==
    /\ tree = <<>> /\ inc = FALSE /\ mode = "md5_list" /\ run = 0 /\ pc = "idle"
    /\ stack = <<>> /\ cur = <<>> /\ acc = <<>> /\ res = <<>>

----------------------------------------------------------------------------
(* Spec: HashList a, built as HashList("d") or HashList() and filled with   *)
(* add; HashList b, built as HashList(); and the file they read and write   *)

Init ==
    /\ hl = [o \in Objs |-> <<>>]
    /\ dp \in [a : {None, Str(<<100>>)}, b : {None}]
    /\ fs \in FileInputs
    /\ ret = NoCall
    /\ DirIdle

Next ==
    \/ \E e \in EntriesFile : Add("a", e)
    \/ \E o \in Objs : ReadFile(o)
    \/ \E o \in Objs : WriteFile(o)
    \/ \E q \in Pairs : Eq(q[1], q[2])
    \/ \E q \in Pairs : Compare(q[1], q[2])

Spec == Init /\ [][Next]_vars

----------------------------------------------------------------------------
(* SpecEq: two HashLists, each built with or without a dirpath, filled with *)
(* add and compared                                                         *)

InitEq ==
    /\ hl = [o \in Objs |-> <<>>]
    /\ dp \in [a : {None, Str(<<100>>)}, b : {None, Str(<<101>>)}]
    /\ fs = NoFile
    /\ ret = NoCall
    /\ DirIdle

\* the file is only written here, never read back: the first write_file is
\* the last call
NextEq ==
    \/ \E o \in Objs, e \in EntriesEq : ~fs.isfile /\ Add(o, e)
    \/ \E o \in Objs : ~fs.isfile /\ Lines(o)
    \/ \E o \in Objs : ~fs.isfile /\ WriteFile(o)
    \/ \E q \in Pairs : ~fs.isfile /\ Eq(q[1], q[2])
    \/ \E q \in Pairs : ~fs.isfile /\ Diff(q[1], q[2])
    \/ \E q \in Pairs : ~fs.isfile /\ Compare(q[1], q[2])

SpecEq == InitEq /\ [][NextEq]_vars

----------------------------------------------------------------------------
(* Directory: the snapshot walked *)

\* A snapshot: the files and the directories below the root, each named by
\* its components from the root (the root is <<>>), the files open() fails
\* on, and the directories os.scandir() fails on.
NameA == <<97>>
NameB == <<98>>
NameH == <<46, 104>>
NameS == <<115>>
NameT == <<116>>
NameD == <<46, 100>>

Snapshots ==
    { [files |-> rf \cup sf \cup tf \cup df, dirs |-> sd \cup td \cup dd] :
        rf \in SUBSET { <<NameA>>, <<NameB>>, <<NameH>> },
        sf \in SUBSET { <<NameS, NameA>>, <<NameS, NameH>> },
        tf \in SUBSET { <<NameS, NameT, NameA>> },
        df \in SUBSET { <<NameD, NameA>> },
        sd \in { {}, { <<NameS>> } },
        td \in { {}, { <<NameS, NameT>> } },
        dd \in { {}, { <<NameD>> } } }

\* every file and directory lies in a directory of the snapshot
WellFormed(t) ==
    \A p \in t.files \cup t.dirs :
        Len(p) = 1 \/ SubSeq(p, 1, Len(p) - 1) \in t.dirs

\* at most one file that cannot be read and one sub-directory that cannot be
\* listed
Trees ==
    UNION { { [files |-> t.files, dirs |-> t.dirs, noread |-> nr, nolist |-> nl] :
                nr \in {{}} \cup {{f} : f \in t.files},
                nl \in {{}} \cup {{d} : d \in t.dirs} } :
            t \in {u \in Snapshots : WellFormed(u)} }

\* the names os.scandir(d) gives: sub-directories, and other entries
DirsIn(t, d)  == {p[Len(p)] : p \in {q \in t.dirs  : Len(q) = Len(d) + 1 /\ SubSeq(q, 1, Len(d)) = d}}
FilesIn(t, d) == {p[Len(p)] : p \in {q \in t.files : Len(q) = Len(d) + 1 /\ SubSeq(q, 1, Len(d)) = d}}

\* the orders in which the file system may hand out a set of names
Orders(S) == {f \in [1..Cardinality(S) -> S] : \A i, j \in DOMAIN f : f[i] = f[j] => i = j}

\* the bytes open(filepath, "rb").read() gives: each file holds its own path
Bytes(p) == join(<<47>>, p)

\* a stand-in for hashlib.md5(data).hexdigest(): two lowercase hexadecimal
\* digits computed from all the bytes in order
RECURSIVE checksum(_, _)
checksum(data, h) ==
    IF data = <<>> THEN h ELSE checksum(Tail(data), (h * 31 + data[1]) % 256)

hexchar(n) == IF n < 10 THEN 48 + n ELSE 87 + n

hexdigest(data) ==
    <<hexchar(checksum(data, 7) \div 16), hexchar(checksum(data, 7) % 16)>>

----------------------------------------------------------------------------
(* Directory: _get_filepaths, md5_list, md5 *)

RECURSIVE InsertStr(_, _)
InsertStr(e, s) ==
    IF s = <<>> THEN <<e>>
    ELSE IF StrLess(s[1], e) THEN <<s[1]>> \o InsertStr(e, Tail(s))
    ELSE <<e>> \o s

\* list.sort() of a list of str
RECURSIVE sort_str(_)
sort_str(s) == IF s = <<>> THEN <<>> ELSE InsertStr(s[1], sort_str(Tail(s)))

\* the walk using the names in the order the file system gave them
unsorted(names) == names

\* dirnames.sort()
dirnames_sort(dirnames) == sort_str(dirnames)

\* filenames.sort()
filenames_sort(filenames) == sort_str(filenames)

\* whether _get_filepaths passes over a file name
skipped(filename, include_hidden) == startswith(filename, 46) /\ ~include_hidden

\* os.path.relpath(os.path.join(d_path, filename), self.dirpath)
relpath(d_path, filename) == join(<<47>>, Append(d_path, filename))

NoTriple == [walking |-> FALSE, d_path |-> <<>>, dirnames |-> <<>>, filenames |-> <<>>, k |-> 0]

NoResult == [done |-> FALSE, exc |-> "", hashlist |-> <<>>, dirpath |-> None, fed |-> <<>>, digest |-> <<>>]

\* the call of md5_list or md5 begins: os.walk(self.dirpath) starts at the root
Begin ==
    /\ pc = "idle"
    /\ run < Runs
    /\ run' = run + 1
    /\ pc' = "walk"
    /\ stack' = << <<>> >>
    /\ cur' = NoTriple
    /\ acc' = <<>>
    /\ UNCHANGED <<tree, inc, mode, res>>
    /\ UNCHANGED hlvars

\* os.walk lists the next directory (an error of scandir is ignored and the
\* directory passed over: onerror is None), and the loop body sorts both
\* lists of names
Scandir ==
    /\ pc = "walk"
    /\ ~cur.walking
    /\ stack # <<>>
    /\ LET d == Head(stack)
       IN  IF d \in tree.nolist
           THEN /\ stack' = Tail(stack)
                /\ cur' = cur
           ELSE \E rawdirs \in Orders(DirsIn(tree, d)), rawfiles \in Orders(FilesIn(tree, d)) :
                    /\ cur' = [walking |-> TRUE, d_path |-> d,
                               dirnames |-> dirnames_sort(rawdirs),
                               filenames |-> filenames_sort(rawfiles), k |-> 1]
                    /\ stack' = Tail(stack)
    /\ UNCHANGED <<tree, inc, mode, run, pc, acc, res>>
    /\ UNCHANGED hlvars

\* one turn of "for filename in filenames" and of the caller's loop body:
\* the file is passed over, or opened and read (an error of open or read
\* ends the call), and hashed
VisitFile ==
    /\ pc = "walk"
    /\ cur.walking
    /\ cur.k <= Len(cur.filenames)
    /\ LET filename == cur.filenames[cur.k]
           filepath == Append(cur.d_path, filename)
       IN  IF skipped(filename, inc)
           THEN /\ cur' = [cur EXCEPT !.k = @ + 1]
                /\ UNCHANGED <<pc, acc, res, stack>>
           ELSE IF filepath \in tree.noread
           THEN /\ pc' = "idle"
                /\ res' = Append(res, [NoResult EXCEPT !.done = TRUE, !.exc = "IOError"])
                /\ cur' = NoTriple
                /\ stack' = <<>>
                /\ acc' = <<>>
           ELSE /\ cur' = [cur EXCEPT !.k = @ + 1]
                /\ acc' = IF mode = "md5_list"
                          THEN Append(acc, <<relpath(cur.d_path, filename),
                                             hexdigest(Bytes(filepath))>>)
                          ELSE acc \o Bytes(filepath)
                /\ UNCHANGED <<pc, res, stack>>
    /\ UNCHANGED <<tree, inc, mode, run>>
    /\ UNCHANGED hlvars

\* the file names are used up: os.walk goes on with the sub-directories, in
\* the order dirnames now has
LeaveDir ==
    /\ pc = "walk"
    /\ cur.walking
    /\ cur.k > Len(cur.filenames)
    /\ stack' = [i \in 1..Len(cur.dirnames) |-> Append(cur.d_path, cur.dirnames[i])] \o stack
    /\ cur' = NoTriple
    /\ UNCHANGED <<tree, inc, mode, run, pc, acc, res>>
    /\ UNCHANGED hlvars

\* os.walk is exhausted: md5_list returns its HashList, md5 its hexdigest
Return ==
    /\ pc = "walk"
    /\ ~cur.walking
    /\ stack = <<>>
    /\ pc' = "idle"
    /\ res' = Append(res,
                 IF mode = "md5_list"
                 THEN [NoResult EXCEPT !.done = TRUE, !.hashlist = acc,
                                       !.dirpath = Str(<<47, 100>>)]
                 ELSE [NoResult EXCEPT !.done = TRUE, !.fed = acc,
                                       !.digest = hexdigest(acc)])
    /\ acc' = <<>>
    /\ UNCHANGED <<tree, inc, mode, run, stack, cur>>
    /\ UNCHANGED hlvars

\* SpecDir: one snapshot, one include_hidden flag, and successive calls of
\* the same method on it
InitDir ==
    /\ tree \in Trees
    /\ inc \in BOOLEAN
    /\ mode \in {"md5_list", "md5"}
    /\ run = 0
    /\ pc = "idle"
    /\ stack = <<>>
    /\ cur = NoTriple
    /\ acc = <<>>
    /\ res = <<>>
    /\ hl = [o \in Objs |-> <<>>]
    /\ dp = [o \in Objs |-> None]
    /\ fs = NoFile
    /\ ret = NoCall

NextDir ==
    \/ Begin
    \/ Scandir
    \/ VisitFile
    \/ LeaveDir
    \/ Return

SpecDir == InitDir /\ [][NextDir]_vars

----------------------------------------------------------------------------
(* What the claims are stated with *)

Range(s) == {s[i] : i \in DOMAIN s}

\* the multiset of the elements of a sequence
BagOf(s) == [e \in Range(s) |-> Cardinality({i \in DOMAIN s : s[i] = e})]

\* ascending by (relativePath, digest)
IsSorted(s) == \A i \in 1..(Len(s) - 1) : ~TupleLess(s[i + 1], s[i])

\* the number of whitespace-separated tokens of a line
NumTokens(line) ==
    Cardinality({i \in 1..Len(line) :
                    ~IsSpace(line[i]) /\ (i = 1 \/ IsSpace(line[i - 1]))})

IsComment(line) == Len(line) > 0 /\ line[1] = 35

ContentLines(f) == {i \in 1..Len(f.lines) : ~IsComment(f.lines[i])}

----------------------------------------------------------------------------
(* C1 *)

\* C1: a.equals(b) is true exactly when the two entry sequences hold the
\* same multiset of (path, digest) pairs, whatever the insertion orders.
C1_EqIffSameMultiset ==
    ret.op = "eq" =>
        (ret.val <=> BagOf(ret.pre[ret.self]) = BagOf(ret.pre[ret.other]))

\* two lists of two different entries, inserted in different orders, found equal
C1_Witness ==
    /\ ret.op = "eq"
    /\ ret.val
    /\ Len(ret.pre[ret.self]) = 2
    /\ ret.pre[ret.self][1] # ret.pre[ret.self][2]
    /\ ret.pre[ret.self] # ret.pre[ret.other]

----------------------------------------------------------------------------
(* C2 *)

\* C2: whatever list a holds, after a.write_file(p) and b.read_file(p) the
\* read has succeeded and b holds the same multiset of entries as a
\* (a.equals(b) is true).
C2_RoundTrip ==
    (ret.op = "read_file" /\ ret.self = "b" /\ fs = write_file(hl["a"], dp["a"])) =>
        /\ ret.exc = ""
        /\ BagOf(hl["b"]) = BagOf(hl["a"])
        /\ eq(hl["a"], hl["b"]).val

\* a non-empty str without whitespace
OneToken(str) == str # <<>> /\ \A i \in 1..Len(str) : ~IsSpace(str[i])

\* what does hold of the round trip: a list that is not empty, whose paths
\* and digests are single tokens and whose paths do not begin with '#', is
\* read back entry for entry
C2_RoundTripOfTokens ==
    ( /\ ret.op = "read_file" /\ ret.self = "b"
      /\ fs = write_file(hl["a"], dp["a"])
      /\ hl["a"] # <<>>
      /\ \A e \in Range(hl["a"]) : OneToken(e[1]) /\ OneToken(e[2]) /\ e[1][1] # 35 )
    => (ret.exc = "" /\ hl["b"] = hl["a"])

----------------------------------------------------------------------------
(* C3 *)

\* C3: compare(other) returns the "identical" message when equals(other) is
\* true, and otherwise the "different" header followed by the zero-context
\* unified diff of the two lists' lines(), labelled with the two origin labels.
C3_CompareReport ==
    ret.op = "compare" =>
        /\ ret.exc = ""
        /\ ret.val =
             IF BagOf(ret.pre[ret.self]) = BagOf(ret.pre[ret.other])
             THEN Identiques
             ELSE Differentes
                  \o join(<<10>>, unified_diff(lines(hl[ret.self]), lines(hl[ret.other]),
                                               dp[ret.self].v, dp[ret.other].v))

\* what does hold of compare: with two str labels it returns the text C3
\* describes
C3_ReportWhenLabelled ==
    (ret.op = "compare" /\ ~dp[ret.self].isNone /\ ~dp[ret.other].isNone)
        => C3_CompareReport

----------------------------------------------------------------------------
(* C4 *)

\* C4: read_file fails with the not-a-file error when the path is no regular
\* file, with the empty-input error when no line is left once the lines
\* beginning with '#' are dropped, and with the malformed-line error when a
\* remaining line does not split into exactly two tokens.
C4_ReadFileRejects ==
    ret.op = "read_file" =>
        /\ ~fs.isfile => ret.exc = "Exception: N'est pas un fichier"
        /\ (fs.isfile /\ ContentLines(fs) = {}) => ret.exc = "Exception: est vide"
        /\ (fs.isfile /\ \E i \in ContentLines(fs) : NumTokens(fs.lines[i]) # 2)
               => ret.exc = "AssertionError"

\* a file with a line of three tokens has been refused
C4_Witness ==
    /\ ret.op = "read_file"
    /\ ret.exc = "AssertionError"
    /\ \E i \in ContentLines(fs) : NumTokens(fs.lines[i]) = 3

----------------------------------------------------------------------------
(* C7 *)

\* C7: after a read_file that succeeds the entry sequence is the parsed
\* entries of the file, in file order, and the origin label is None,
\* whatever the object held before.
C7_ReadReplacesState ==
    (ret.op = "read_file" /\ ret.exc = "") =>
        /\ Len(hl[ret.self]) = Cardinality(ContentLines(fs))
        /\ hl[ret.self] = read_file(<<>>, fs).hashlist
        /\ dp[ret.self] = None

\* what does hold of a read_file that succeeds: the entries are replaced by
\* those of the file, one for each line not beginning with '#', in file
\* order, and the label is left as it was
C7_EntriesReplacedLabelKept ==
    (ret.op = "read_file" /\ ret.exc = "") =>
        /\ Len(hl[ret.self]) = Cardinality(ContentLines(fs))
        /\ hl[ret.self] = read_file(<<>>, fs).hashlist
        /\ dp = ret.dp0

----------------------------------------------------------------------------
(* C9 *)

\* after equals both lists are sorted, each a permutation of what it was,
\* the labels are unchanged, and equals called again changes nothing
C9_SortedAfterEq ==
    ret.op = "eq" =>
        /\ IsSorted(hl[ret.self]) /\ IsSorted(hl[ret.other])
        /\ BagOf(hl[ret.self]) = BagOf(ret.pre[ret.self])
        /\ BagOf(hl[ret.other]) = BagOf(ret.pre[ret.other])
        /\ dp = ret.dp0
        /\ eq(hl[ret.self], hl[ret.other]) =
               [self |-> hl[ret.self], other |-> hl[ret.other], val |-> ret.val]

\* the lines(), diff or write_file called next renders the sorted
\* arrangement of the list as it was before equals
C9_RenderedSorted ==
    ret.op = "eq" =>
        /\ ret'.op = "lines" => ret'.val = lines(sort(ret.pre[ret'.self]))
        /\ ret'.op = "diff" =>
               ret'.val = diff(sort(ret.pre[ret'.self]), dp[ret'.self],
                               sort(ret.pre[ret'.other]), dp[ret'.other]).val
        /\ ret'.op = "write_file" =>
               fs' = write_file(sort(ret.pre[ret'.self]), dp[ret'.self])

\* C9: after a.equals(b), whatever its result, both entry sequences are
\* sorted ascending by (path, digest), each a permutation of what it was, the
\* labels unchanged; calling equals again changes nothing; and a lines(),
\* diff or write_file that follows renders the sorted order.
C9_EqSideEffect == []C9_SortedAfterEq /\ [][C9_RenderedSorted]_vars

\* equals has found two lists different and has reordered its operand
C9_Witness ==
    /\ ret.op = "eq"
    /\ ~ret.val
    /\ hl[ret.self] # ret.pre[ret.self]
    /\ Len(hl[ret.other]) = 2

----------------------------------------------------------------------------
(* C10 *)

\* a read_file that fails leaves the entry sequence and the label as they were
C10_FailedReadChangesNothing ==
    (ret.op = "read_file" /\ ret.exc # "") => (hl = ret.pre /\ dp = ret.dp0)

\* C10 as stated: a failing read_file changes nothing, and the entry
\* sequence is changed only by add and by a read_file that succeeds.
C10_OnlyAddAndRead ==
    /\ C10_FailedReadChangesNothing
    /\ hl # ret.pre =>
           \/ ret.op = "add"
           \/ ret.op = "read_file" /\ ret.exc = ""

\* C10 amended: a failing read_file changes nothing; the entry sequence is
\* changed only by add, by a read_file that succeeds, and by equals (and
\* compare, which calls it), which only reorders it.
C10_ReadAllOrNothing ==
    /\ C10_FailedReadChangesNothing
    /\ hl # ret.pre =>
           \/ ret.op = "add"
           \/ ret.op = "read_file" /\ ret.exc = ""
           \/ /\ ret.op \in {"eq", "compare"}
              /\ \A o \in Objs : BagOf(hl[o]) = BagOf(ret.pre[o])

\* a list that held entries has read a file whose second line is malformed
\* and whose first line is well formed
C10_Witness ==
    /\ ret.op = "read_file"
    /\ ret.exc = "AssertionError"
    /\ ret.pre[ret.self] # <<>>
    /\ hl[ret.self] = ret.pre[ret.self]
    /\ Len(fs.lines) = 2
    /\ NumTokens(fs.lines[1]) = 2

----------------------------------------------------------------------------
(* What the claims about Directory are stated with *)

\* the relative path of a file of the snapshot, as text
RelOf(p) == join(<<47>>, p)

\* the last component of a relative path begins with '.'
BaseDotted(rel) ==
    LET seps  == {i \in 1..Len(rel) : rel[i] = 47}
        start == IF seps = {} THEN 1 ELSE (CHOOSE i \in seps : \A j \in seps : j <= i) + 1
    IN  start <= Len(rel) /\ rel[start] = 46

Dotted(name) == Len(name) > 0 /\ name[1] = 46

\* the files of the snapshot the traversal is to include
Included(t, include_hidden) == {p \in t.files : include_hidden \/ ~Dotted(p[Len(p)])}

PathsOf(hashlist) == {hashlist[i][1] : i \in DOMAIN hashlist}

\* the calls of md5_list that have returned a HashList
Returned == {i \in DOMAIN res : mode = "md5_list" /\ res[i].exc = ""}

----------------------------------------------------------------------------
(* C5 *)

\* C5: the list md5_list returns holds, with include_hidden false, no entry
\* whose file name begins with '.', and with include_hidden true an entry for
\* every file of the tree; a file with a plain name in a dotted directory is
\* listed in both modes.
C5_HiddenFilter ==
    \A i \in Returned :
        /\ ~inc => \A e \in Range(res[i].hashlist) : ~BaseDotted(e[1])
        /\ inc => \A p \in tree.files : RelOf(p) \in PathsOf(res[i].hashlist)
        /\ \A p \in tree.files :
               (~Dotted(p[Len(p)]) /\ \E k \in 1..(Len(p) - 1) : Dotted(p[k]))
                   => RelOf(p) \in PathsOf(res[i].hashlist)

\* what does hold of the filter: C5 on the trees all of whose directories
\* can be listed
C5_WhenListable == tree.nolist = {} => C5_HiddenFilter

----------------------------------------------------------------------------
(* C6 *)

\* C6: two calls of md5_list on one snapshot with one include_hidden flag
\* end alike and return the same entries in the same order (hence the same
\* lines()), and two calls of md5 feed the same bytes in the same order,
\* whatever orders the file system lists the names in.
C6_Deterministic ==
    \A i, j \in DOMAIN res :
        /\ res[i] = res[j]
        /\ lines(res[i].hashlist) = lines(res[j].hashlist)

\* two calls have returned for a tree with three files in one directory and
\* two sub-directories, all of them reached
C6_Witness ==
    /\ Len(res) >= 2
    /\ res[2].exc = ""
    /\ Cardinality(FilesIn(tree, <<>>)) = 3
    /\ Cardinality(DirsIn(tree, <<>>)) = 2
    /\ inc
    /\ tree.nolist = {}
    /\ Len(res[2].hashlist) + Len(res[2].fed) > 4

----------------------------------------------------------------------------
(* C8 *)

\* C8: when an included file of the tree cannot be opened or read the call
\* fails with an I/O error; and a HashList that md5_list returns holds
\* exactly one entry for every included file of the tree.
C8_NoPartialResult ==
    \A i \in DOMAIN res :
        /\ (\E p \in Included(tree, inc) : p \in tree.noread) => res[i].exc = "IOError"
        /\ i \in Returned =>
               /\ PathsOf(res[i].hashlist) = {RelOf(p) : p \in Included(tree, inc)}
               /\ Len(res[i].hashlist) = Cardinality(Included(tree, inc))

\* what does hold of read failures: C8 on the trees all of whose directories
\* can be listed
C8_WhenListable == tree.nolist = {} => C8_NoPartialResult

====
